---- MODULE Spec2Model ----
(***************************************************************************)
(* Vaultix milestone escrow contract (apps/onchain/src/lib.rs).            *)
(*                                                                         *)
(* The contract's persistent storage is the state: the admin slot and the  *)
(* escrow records keyed by escrow id.  Every contract entry point is an    *)
(* operator from (storage, arguments, authorizations) to a result code and *)
(* the storage it leaves behind, and an action that applies it to inputs   *)
(* drawn from small sets.                                                  *)
(***************************************************************************)
EXTENDS Integers, Sequences, FiniteSets, TLC

(***************************************************************************)
(* Bounds of the model.                                                    *)
(***************************************************************************)
\* Longest milestone list a caller submits, apart from the oversize list.
MaxLen == 2
\* i128::MAX, scaled down: amounts and their sums live in I128_MIN..I128_MAX.
I128_MAX == 2

I128_MIN == -I128_MAX - 1

(***************************************************************************)
(* Program constants and input domains.                                    *)
(***************************************************************************)
\* validate_milestones: `if milestones.len() > 20`
MAX_MILESTONES == 20

Addresses == {"alice", "bob", "carol"}
EscrowIds == {1}
Symbols == {"design", "dev"}
\* Amounts a caller can put in a milestone: negative, zero, every positive value.
Amounts == -1 .. I128_MAX

MilestoneStatus == {"Pending", "Released", "Disputed"}
EscrowStatus == {"Active", "Completed", "Cancelled", "Disputed", "Resolved"}
Resolution == {"None", "Depositor", "Recipient"}

\* Statuses a caller writes into the milestones it submits.
SuppliedStatus == {"Pending", "Released"}

Milestone == [amount : Amounts, status : SuppliedStatus, description : Symbols]

\* The list test_too_many_milestones submits: one entry more than the limit.
OversizeList ==
    [i \in 1 .. (MAX_MILESTONES + 1) |->
        [amount |-> 1, status |-> "Pending", description |-> "design"]]

MilestoneLists ==
    UNION {[1 .. n -> Milestone] : n \in 0 .. MaxLen} \cup {OversizeList}

\* milestone_index: u32, in range or one past the longest stored list
Indexes == 0 .. MaxLen

\* Sets of addresses whose authorization an invocation carries: one signer each.
AuthSets == {{a} : a \in Addresses}

VARIABLES
    admin_slot,   \* persistent slot "admin": <<>> when unset, <<address>> when set
    escrow_slots, \* persistent records ("escrow", id): function from stored ids to Escrow
    last,         \* the last invocation: entry point, escrow id, result code
    raised,       \* history: the escrow ids on which raise_dispute has succeeded
    created,      \* history: for each id, the record its successful create_escrow saved
    first_admin   \* history: the admin slot as the first successful init left it

vars == <<admin_slot, escrow_slots, last, raised, created, first_admin>>

\* The storage as one value, as the entry points read and write it.
Storage == [admin |-> admin_slot, escrows |-> escrow_slots]

Ok(st) == [result |-> "Ok", storage |-> st]
Err(code, st) == [result |-> code, storage |-> st]

\* Address::require_auth: the host aborts the invocation when the address did not authorize it.
require_auth(address, auths) == address \in auths

\* env.storage().persistent().has(&get_storage_key(escrow_id))
has_escrow(st, escrow_id) == escrow_id \in DOMAIN st.escrows

\* env.storage().persistent().set(&storage_key, &escrow)
set_escrow(st, escrow_id, escrow) ==
    [st EXCEPT !.escrows =
        [k \in (DOMAIN st.escrows) \cup {escrow_id} |->
            IF k = escrow_id THEN escrow ELSE st.escrows[k]]]

\* i128::checked_add: None on overflow
checked_add_ok(a, b) == (a + b <= I128_MAX) /\ (a + b >= I128_MIN)

(***************************************************************************)
(* Helpers of lib.rs.                                                      *)
(***************************************************************************)
\* Mutant: get_admin falls back to a fixed address when none is stored.
get_admin_with_default(st) ==
    IF st.admin = <<>>
    THEN [result |-> "Ok", address |-> "carol"]
    ELSE [result |-> "Ok", address |-> st.admin[1]]

\* get_admin: the stored admin, or AdminNotInitialized
get_admin(st) ==
    IF st.admin = <<>>
    THEN [result |-> "AdminNotInitialized", address |-> "none"]
    ELSE [result |-> "Ok", address |-> st.admin[1]]

\* Mutant: the loop sums with saturating_add instead of checked_add.
RECURSIVE validate_loop_saturating(_, _, _)
validate_loop_saturating(milestones, i, total) ==
    IF i > Len(milestones)
    THEN [result |-> "Ok", total |-> total]
    ELSE IF milestones[i].amount <= 0
    THEN [result |-> "InvalidMilestoneAmount", total |-> 0]
    ELSE validate_loop_saturating(milestones, i + 1,
             IF checked_add_ok(total, milestones[i].amount)
             THEN total + milestones[i].amount ELSE I128_MAX)

\* The loop of validate_milestones from entry i on, with the running total.
RECURSIVE validate_loop(_, _, _)
validate_loop(milestones, i, total) ==
    IF i > Len(milestones)
    THEN [result |-> "Ok", total |-> total]
    ELSE IF milestones[i].amount <= 0
    THEN [result |-> "InvalidMilestoneAmount", total |-> 0]
    ELSE IF ~checked_add_ok(total, milestones[i].amount)
    THEN [result |-> "InvalidMilestoneAmount", total |-> 0]
    ELSE validate_loop(milestones, i + 1, total + milestones[i].amount)

\* validate_milestones: the size check, then the loop; returns the total amount
validate_milestones(milestones) ==
    IF Len(milestones) > MAX_MILESTONES
    THEN [result |-> "VectorTooLarge", total |-> 0]
    ELSE validate_loop(milestones, 1, 0)

\* Mutant: the loop of verify_all_released returns after its first milestone.
verify_first_released(milestones) ==
    \A i \in 1 .. Len(milestones) : i = 1 => milestones[i].status = "Released"

\* verify_all_released: no milestone with a status other than Released
verify_all_released(milestones) ==
    \A i \in 1 .. Len(milestones) : milestones[i].status = "Released"

\* Mutant: create_escrow's loop clones the milestones as submitted.
initialize_milestones_as_submitted(milestones) ==
    [i \in 1 .. Len(milestones) |-> milestones[i]]

\* create_escrow's loop: every milestone cloned with status Pending
initialize_milestones(milestones) ==
    [i \in 1 .. Len(milestones) |-> [milestones[i] EXCEPT !.status = "Pending"]]

\* Mutant: raise_dispute's loop without its `status == Pending` test.
dispute_every_milestone(milestones) ==
    [i \in 1 .. Len(milestones) |-> [milestones[i] EXCEPT !.status = "Disputed"]]

\* Mutant: raise_dispute's loop breaks after the first Pending milestone.
dispute_first_pending_only(milestones) ==
    [i \in 1 .. Len(milestones) |->
        IF milestones[i].status = "Pending"
           /\ \A j \in 1 .. (i - 1) : milestones[j].status # "Pending"
        THEN [milestones[i] EXCEPT !.status = "Disputed"]
        ELSE milestones[i]]

\* raise_dispute's loop: Pending milestones become Disputed
dispute_milestones(milestones) ==
    [i \in 1 .. Len(milestones) |->
        IF milestones[i].status = "Pending"
        THEN [milestones[i] EXCEPT !.status = "Disputed"]
        ELSE milestones[i]]

\* Mutant: the recipient branch releases only the first unreleased milestone.
force_release_first_only(milestones) ==
    [i \in 1 .. Len(milestones) |->
        IF milestones[i].status # "Released"
           /\ \A j \in 1 .. (i - 1) : milestones[j].status = "Released"
        THEN [milestones[i] EXCEPT !.status = "Released"]
        ELSE milestones[i]]

\* resolve_dispute, recipient branch: every milestone not Released becomes Released
force_release_milestones(milestones) ==
    [i \in 1 .. Len(milestones) |->
        IF milestones[i].status # "Released"
        THEN [milestones[i] EXCEPT !.status = "Released"]
        ELSE milestones[i]]

\* Mutant: the depositor branch puts the unreleased milestones back to Pending.
refund_milestones_to_pending(milestones) ==
    [i \in 1 .. Len(milestones) |->
        IF milestones[i].status = "Pending" \/ milestones[i].status = "Disputed"
        THEN [milestones[i] EXCEPT !.status = "Pending"]
        ELSE milestones[i]]

\* resolve_dispute, depositor branch: Pending and Disputed milestones become Disputed
refund_milestones(milestones) ==
    [i \in 1 .. Len(milestones) |->
        IF milestones[i].status = "Pending" \/ milestones[i].status = "Disputed"
        THEN [milestones[i] EXCEPT !.status = "Disputed"]
        ELSE milestones[i]]

(***************************************************************************)
(* The checks and the effects of the entry points, on a loaded record.     *)
(***************************************************************************)
\* Mutant: the status check as release_milestone's doc comment words it
\* ("If escrow is completed or cancelled").
release_checks_completed_or_cancelled(escrow, milestone_index) ==
    IF escrow.status \in {"Completed", "Cancelled"} THEN "EscrowNotActive"
    ELSE IF milestone_index >= Len(escrow.milestones) THEN "MilestoneNotFound"
    ELSE IF escrow.milestones[milestone_index + 1].status = "Released"
    THEN "MilestoneAlreadyReleased"
    ELSE "Ok"

\* Mutant: release_milestone without its already-released check.
release_checks_no_released_check(escrow, milestone_index) ==
    IF escrow.status # "Active" THEN "EscrowNotActive"
    ELSE IF milestone_index >= Len(escrow.milestones) THEN "MilestoneNotFound"
    ELSE "Ok"

\* release_milestone, after authorization: status, index, already released
release_checks(escrow, milestone_index) ==
    IF escrow.status # "Active" THEN "EscrowNotActive"
    ELSE IF milestone_index >= Len(escrow.milestones) THEN "MilestoneNotFound"
    ELSE IF escrow.milestones[milestone_index + 1].status = "Released"
    THEN "MilestoneAlreadyReleased"
    ELSE "Ok"

\* Mutant: the released copy is pushed to the vector instead of set at its index.
release_mark_push_back(escrow, milestone_index) ==
    [escrow EXCEPT !.milestones =
        Append(@, [@[milestone_index + 1] EXCEPT !.status = "Released"])]

\* release_milestone: the milestone set to Released in the loaded record
release_mark(escrow, milestone_index) ==
    [escrow EXCEPT !.milestones[milestone_index + 1].status = "Released"]

\* Mutant: only the AlreadyInDispute check, the Active check dropped.
dispute_checks_only_disputed(escrow) ==
    IF escrow.status = "Disputed" THEN "AlreadyInDispute" ELSE "Ok"

\* raise_dispute, after authorization: the status checks
dispute_checks(escrow) ==
    IF escrow.status = "Disputed" THEN "AlreadyInDispute"
    ELSE IF escrow.status # "Active" THEN "InvalidEscrowStatus"
    ELSE "Ok"

\* raise_dispute: the record it saves
dispute_effect(escrow) ==
    [escrow EXCEPT !.milestones = dispute_milestones(@),
                   !.status = "Disputed",
                   !.resolution = "None"]

\* Mutant: the status test of cancel_escrow and complete_escrow, copied.
resolve_checks_active(escrow, winner) ==
    IF escrow.status # "Active" THEN "InvalidEscrowStatus"
    ELSE IF winner # escrow.depositor /\ winner # escrow.recipient THEN "InvalidWinner"
    ELSE "Ok"

\* resolve_dispute: status and winner checks
resolve_checks(escrow, winner) ==
    IF escrow.status # "Disputed" THEN "InvalidEscrowStatus"
    ELSE IF winner # escrow.depositor /\ winner # escrow.recipient THEN "InvalidWinner"
    ELSE "Ok"

\* Mutant: the recipient branch without `escrow.total_released = escrow.total_amount`.
resolve_for_recipient_stale_total(escrow) ==
    [escrow EXCEPT !.milestones = force_release_milestones(@),
                   !.resolution = "Recipient"]

\* resolve_dispute, `if winner == escrow.recipient` branch
resolve_for_recipient(escrow) ==
    [escrow EXCEPT !.milestones = force_release_milestones(@),
                   !.total_released = escrow.total_amount,
                   !.resolution = "Recipient"]

\* resolve_dispute, else branch
resolve_for_depositor(escrow) ==
    [escrow EXCEPT !.milestones = refund_milestones(@),
                   !.resolution = "Depositor"]

\* Mutant: cancel_escrow without its status check.
cancel_checks_no_status(escrow) ==
    IF escrow.total_released > 0 THEN "MilestoneAlreadyReleased" ELSE "Ok"

\* Mutant: only the Active check, the `total_released > 0` check dropped.
cancel_checks_no_released_check(escrow) ==
    IF escrow.status # "Active" THEN "InvalidEscrowStatus" ELSE "Ok"

\* cancel_escrow, after authorization: status, nothing released
cancel_checks(escrow) ==
    IF escrow.status # "Active" THEN "InvalidEscrowStatus"
    ELSE IF escrow.total_released > 0 THEN "MilestoneAlreadyReleased"
    ELSE "Ok"

\* complete_escrow, after authorization: status, everything released
complete_checks(escrow) ==
    IF escrow.status # "Active" THEN "InvalidEscrowStatus"
    ELSE IF ~verify_all_released(escrow.milestones) THEN "EscrowNotActive"
    ELSE "Ok"

(***************************************************************************)
(* The entry points of VaultixEscrow.  Each returns the result code and    *)
(* the storage after the invocation; a failed require_auth aborts the      *)
(* invocation in the host ("HostAuthError") with the storage as it was.    *)
(***************************************************************************)
\* Mutant: init without its check for a stored admin.
init_overwrites(st, admin, auths) ==
    IF ~require_auth(admin, auths) THEN Err("HostAuthError", st)
    ELSE Ok([st EXCEPT !.admin = <<admin>>])

init(st, admin, auths) ==
    IF st.admin # <<>> THEN Err("AlreadyInitialized", st)
    ELSE IF ~require_auth(admin, auths) THEN Err("HostAuthError", st)
    ELSE Ok([st EXCEPT !.admin = <<admin>>])

\* Mutant: the record is saved before the milestones are validated.
create_escrow_store_first(st, escrow_id, depositor, recipient, milestones, auths) ==
    IF ~require_auth(depositor, auths) THEN Err("HostAuthError", st)
    ELSE IF has_escrow(st, escrow_id) THEN Err("EscrowAlreadyExists", st)
    ELSE LET validated == validate_milestones(milestones)
             saved == set_escrow(st, escrow_id,
                        [depositor      |-> depositor,
                         recipient      |-> recipient,
                         total_amount   |-> validated.total,
                         total_released |-> 0,
                         milestones     |-> initialize_milestones(milestones),
                         status         |-> "Active",
                         resolution     |-> "None"]) IN
         IF validated.result # "Ok" THEN Err(validated.result, saved) ELSE Ok(saved)

\* Mutant: create_escrow without its existence check.
create_escrow_no_exists_check(st, escrow_id, depositor, recipient, milestones, auths) ==
    IF ~require_auth(depositor, auths) THEN Err("HostAuthError", st)
    ELSE LET validated == validate_milestones(milestones) IN
         IF validated.result # "Ok" THEN Err(validated.result, st)
         ELSE Ok(set_escrow(st, escrow_id,
                    [depositor      |-> depositor,
                     recipient      |-> recipient,
                     total_amount   |-> validated.total,
                     total_released |-> 0,
                     milestones     |-> initialize_milestones(milestones),
                     status         |-> "Active",
                     resolution     |-> "None"]))

create_escrow(st, escrow_id, depositor, recipient, milestones, auths) ==
    IF ~require_auth(depositor, auths) THEN Err("HostAuthError", st)
    ELSE IF has_escrow(st, escrow_id) THEN Err("EscrowAlreadyExists", st)
    ELSE LET validated == validate_milestones(milestones) IN
         IF validated.result # "Ok" THEN Err(validated.result, st)
         ELSE Ok(set_escrow(st, escrow_id,
                    [depositor      |-> depositor,
                     recipient      |-> recipient,
                     total_amount   |-> validated.total,
                     total_released |-> 0,
                     milestones     |-> initialize_milestones(milestones),
                     status         |-> "Active",
                     resolution     |-> "None"]))

release_milestone(st, escrow_id, milestone_index, auths) ==
    IF ~has_escrow(st, escrow_id) THEN Err("EscrowNotFound", st)
    ELSE LET escrow == st.escrows[escrow_id] IN
         IF ~require_auth(escrow.depositor, auths) THEN Err("HostAuthError", st)
         ELSE IF release_checks(escrow, milestone_index) # "Ok"
         THEN Err(release_checks(escrow, milestone_index), st)
         ELSE LET amount == escrow.milestones[milestone_index + 1].amount
                  marked == release_mark(escrow, milestone_index) IN
              IF ~checked_add_ok(marked.total_released, amount)
              THEN Err("InvalidMilestoneAmount", st)
              ELSE Ok(set_escrow(st, escrow_id,
                         [marked EXCEPT !.total_released = @ + amount]))

raise_dispute(st, escrow_id, caller, auths) ==
    IF ~has_escrow(st, escrow_id) THEN Err("EscrowNotFound", st)
    ELSE LET escrow == st.escrows[escrow_id] IN
         IF caller # escrow.depositor /\ caller # escrow.recipient
         THEN Err("UnauthorizedAccess", st)
         ELSE IF ~require_auth(caller, auths) THEN Err("HostAuthError", st)
         ELSE IF dispute_checks(escrow) # "Ok" THEN Err(dispute_checks(escrow), st)
         ELSE Ok(set_escrow(st, escrow_id, dispute_effect(escrow)))

resolve_dispute(st, escrow_id, winner, auths) ==
    LET stored == get_admin(st) IN
    IF stored.result # "Ok" THEN Err(stored.result, st)
    ELSE IF ~require_auth(stored.address, auths) THEN Err("HostAuthError", st)
    ELSE IF ~has_escrow(st, escrow_id) THEN Err("EscrowNotFound", st)
    ELSE LET escrow == st.escrows[escrow_id] IN
         IF resolve_checks(escrow, winner) # "Ok"
         THEN Err(resolve_checks(escrow, winner), st)
         ELSE LET resolved == IF winner = escrow.recipient
                              THEN resolve_for_recipient(escrow)
                              ELSE resolve_for_depositor(escrow) IN
              Ok(set_escrow(st, escrow_id, [resolved EXCEPT !.status = "Resolved"]))

get_escrow(st, escrow_id) ==
    IF ~has_escrow(st, escrow_id) THEN Err("EscrowNotFound", st) ELSE Ok(st)

cancel_escrow(st, escrow_id, auths) ==
    IF ~has_escrow(st, escrow_id) THEN Err("EscrowNotFound", st)
    ELSE LET escrow == st.escrows[escrow_id] IN
         IF ~require_auth(escrow.depositor, auths) THEN Err("HostAuthError", st)
         ELSE IF cancel_checks(escrow) # "Ok" THEN Err(cancel_checks(escrow), st)
         ELSE Ok(set_escrow(st, escrow_id, [escrow EXCEPT !.status = "Cancelled"]))

complete_escrow(st, escrow_id, auths) ==
    IF ~has_escrow(st, escrow_id) THEN Err("EscrowNotFound", st)
    ELSE LET escrow == st.escrows[escrow_id] IN
         IF ~require_auth(escrow.depositor, auths) THEN Err("HostAuthError", st)
         ELSE IF complete_checks(escrow) # "Ok" THEN Err(complete_checks(escrow), st)
         ELSE Ok(set_escrow(st, escrow_id, [escrow EXCEPT !.status = "Completed"]))

(***************************************************************************)
(* The state machine: one action per entry point.                          *)
(***************************************************************************)
\* An invocation commits the storage its entry point returns, and is recorded.
Commit(op, escrow_id, outcome) ==
    /\ admin_slot' = outcome.storage.admin
    /\ escrow_slots' = outcome.storage.escrows
    /\ last' = [op |-> op, id |-> escrow_id, result |-> outcome.result]
    /\ raised' = IF op = "raise_dispute" /\ outcome.result = "Ok"
                 THEN raised \cup {escrow_id} ELSE raised
    /\ created' = IF op = "create_escrow" /\ outcome.result = "Ok"
                  THEN [k \in (DOMAIN created) \cup {escrow_id} |->
                           IF k = escrow_id THEN outcome.storage.escrows[escrow_id]
                           ELSE created[k]]
                  ELSE created
    /\ first_admin' = IF op = "init" /\ outcome.result = "Ok" /\ first_admin = <<>>
                      THEN outcome.storage.admin ELSE first_admin

Init ==
    /\ admin_slot = <<>>
    /\ escrow_slots = <<>>
    /\ last = [op |-> "none", id |-> 0, result |-> "none"]
    /\ raised = {}
    /\ created = <<>>
    /\ first_admin = <<>>

CallInit ==
    \E admin \in Addresses, auths \in AuthSets :
        Commit("init", 0, init(Storage, admin, auths))

\* create_escrow reads recipient and milestones only after the authorization and
\* the existence check: an invocation that fails before that is the same
\* transition for every value of them, and one representative is drawn.
ReadsCreateArgs(escrow_id, depositor, auths) ==
    require_auth(depositor, auths) /\ ~has_escrow(Storage, escrow_id)

CallCreateEscrow ==
    \E escrow_id \in EscrowIds, depositor \in Addresses, auths \in AuthSets :
        \E recipient \in IF ReadsCreateArgs(escrow_id, depositor, auths)
                          THEN Addresses ELSE {depositor},
           milestones \in IF ReadsCreateArgs(escrow_id, depositor, auths)
                           THEN MilestoneLists ELSE {<<>>} :
            Commit("create_escrow", escrow_id,
                   create_escrow(Storage, escrow_id, depositor, recipient, milestones, auths))

CallReleaseMilestone ==
    \E escrow_id \in EscrowIds, milestone_index \in Indexes, auths \in AuthSets :
        Commit("release_milestone", escrow_id,
               release_milestone(Storage, escrow_id, milestone_index, auths))

CallRaiseDispute ==
    \E escrow_id \in EscrowIds, caller \in Addresses, auths \in AuthSets :
        Commit("raise_dispute", escrow_id,
               raise_dispute(Storage, escrow_id, caller, auths))

CallResolveDispute ==
    \E escrow_id \in EscrowIds, winner \in Addresses, auths \in AuthSets :
        Commit("resolve_dispute", escrow_id,
               resolve_dispute(Storage, escrow_id, winner, auths))

CallGetEscrow ==
    \E escrow_id \in EscrowIds :
        Commit("get_escrow", escrow_id, get_escrow(Storage, escrow_id))

CallCancelEscrow ==
    \E escrow_id \in EscrowIds, auths \in AuthSets :
        Commit("cancel_escrow", escrow_id, cancel_escrow(Storage, escrow_id, auths))

CallCompleteEscrow ==
    \E escrow_id \in EscrowIds, auths \in AuthSets :
        Commit("complete_escrow", escrow_id, complete_escrow(Storage, escrow_id, auths))

Next ==
    \/ CallInit
    \/ CallCreateEscrow
    \/ CallReleaseMilestone
    \/ CallRaiseDispute
    \/ CallResolveDispute
    \/ CallGetEscrow
    \/ CallCancelEscrow
    \/ CallCompleteEscrow

Spec == Init /\ [][Next]_vars

\* The contract's storage: what an invocation that fails leaves as it was.
stored == <<admin_slot, escrow_slots>>

\* Spec with weak fairness on the init, release_milestone, complete_escrow and
\* resolve_dispute invocations that change the storage.
FairSpec ==
    /\ Spec
    /\ WF_stored(CallInit)
    /\ WF_stored(CallReleaseMilestone)
    /\ WF_stored(CallCompleteEscrow)
    /\ WF_stored(CallResolveDispute)

(***************************************************************************)
(* Properties.                                                             *)
(***************************************************************************)
StoredIds == DOMAIN escrow_slots

\* The sum of the amounts of the first n milestones whose status is Released.
RECURSIVE released_sum(_, _)
released_sum(milestones, n) ==
    IF n = 0 THEN 0
    ELSE released_sum(milestones, n - 1)
         + (IF milestones[n].status = "Released" THEN milestones[n].amount ELSE 0)

Terminal(escrow) == escrow.status \in {"Completed", "Cancelled", "Resolved"}

\* C1: in every reachable state, every stored escrow's total_released is the sum
\* of the amounts of exactly its Released milestones, and lies in 0..total_amount.
C1_ReleasedTotal ==
    \A id \in StoredIds :
        LET escrow == escrow_slots[id] IN
        /\ escrow.total_released
             = released_sum(escrow.milestones, Len(escrow.milestones))
        /\ 0 <= escrow.total_released
        /\ escrow.total_released <= escrow.total_amount

\* C1 witness: a dispute resolved for the recipient on an escrow of two
\* milestones, so that release, dispute and forced release have all acted.
C1_Witness ==
    \E id \in StoredIds :
        /\ escrow_slots[id].resolution = "Recipient"
        /\ Len(escrow_slots[id].milestones) = 2
        /\ escrow_slots[id].total_released = 2
        /\ last = [op |-> "resolve_dispute", id |-> id, result |-> "Ok"]

\* C2: terminal statuses are sinks: a step taken while an escrow is Completed,
\* Cancelled or Resolved keeps the record stored and leaves its status,
\* milestones, total_released and resolution as they were.
C2_TerminalSink ==
    [][\A id \in StoredIds :
          Terminal(escrow_slots[id]) =>
              /\ id \in DOMAIN escrow_slots'
              /\ escrow_slots'[id].status = escrow_slots[id].status
              /\ escrow_slots'[id].milestones = escrow_slots[id].milestones
              /\ escrow_slots'[id].total_released = escrow_slots[id].total_released
              /\ escrow_slots'[id].resolution = escrow_slots[id].resolution]_vars

\* C2 witness: a Completed escrow on which a later raise_dispute was refused.
C2_Witness ==
    \E id \in StoredIds :
        /\ escrow_slots[id].status = "Completed"
        /\ last = [op |-> "raise_dispute", id |-> id, result |-> "InvalidEscrowStatus"]

\* The edges of the status field, each with the entry point that takes it.
StatusEdges ==
    {<<"Active", "Disputed", "raise_dispute">>,
     <<"Active", "Cancelled", "cancel_escrow">>,
     <<"Active", "Completed", "complete_escrow">>,
     <<"Disputed", "Resolved", "resolve_dispute">>}

\* C3: every change of a stored escrow's status is one of the four edges, made by
\* a successful call of that edge's entry point on that escrow; a record that
\* appears is Active and was stored by a successful create_escrow.
C3_StatusEdges ==
    [][\A id \in DOMAIN escrow_slots' :
          IF id \in StoredIds
          THEN escrow_slots'[id].status # escrow_slots[id].status =>
                  /\ <<escrow_slots[id].status, escrow_slots'[id].status, last'.op>>
                        \in StatusEdges
                  /\ last'.id = id
                  /\ last'.result = "Ok"
          ELSE /\ escrow_slots'[id].status = "Active"
               /\ last' = [op |-> "create_escrow", id |-> id, result |-> "Ok"]]_vars

\* C3 witness: an escrow that went Active -> Disputed -> Resolved.
C3_Witness ==
    \E id \in raised :
        /\ escrow_slots[id].status = "Resolved"
        /\ last = [op |-> "resolve_dispute", id |-> id, result |-> "Ok"]

\* C4: an invocation that returns anything but Ok leaves the admin slot and every
\* escrow record as they were, and so does every get_escrow.
C4_AllOrNothing ==
    [][(last'.result # "Ok" \/ last'.op = "get_escrow") =>
          (admin_slot' = admin_slot /\ escrow_slots' = escrow_slots)]_vars

\* C4 witness: a create_escrow that failed validation with nothing stored, after
\* the admin was set.
C4_Witness ==
    /\ last.op = "create_escrow"
    /\ last.result = "InvalidMilestoneAmount"
    /\ StoredIds = {}
    /\ admin_slot # <<>>

\* C5: once raise_dispute has succeeded on an escrow, release_milestone on it
\* changes nothing, for every index and every signer, before and after the
\* dispute is resolved; its result is EscrowNotActive whenever the invocation
\* carries the depositor's authorization (without it the host aborts the
\* invocation at require_auth, before the status is read).
C5_DisputeFreeze ==
    \A id \in raised :
        \A milestone_index \in Indexes, auths \in AuthSets :
            LET outcome == release_milestone(Storage, id, milestone_index, auths) IN
            /\ outcome.storage = Storage
            /\ outcome.result =
                  IF require_auth(escrow_slots[id].depositor, auths)
                  THEN "EscrowNotActive" ELSE "HostAuthError"

\* C5 witness: a release refused with EscrowNotActive on an escrow whose dispute
\* has been resolved and which still holds an unreleased milestone.
C5_Witness ==
    \E id \in raised :
        /\ escrow_slots[id].status = "Resolved"
        /\ \E i \in 1 .. Len(escrow_slots[id].milestones) :
              escrow_slots[id].milestones[i].status = "Disputed"
        /\ last = [op |-> "release_milestone", id |-> id, result |-> "EscrowNotActive"]

\* The sum of the amounts of those of the first n milestones that are Released
\* in `after` and were not in `before`.
RECURSIVE newly_released_sum(_, _, _)
newly_released_sum(before, after, n) ==
    IF n = 0 THEN 0
    ELSE newly_released_sum(before, after, n - 1)
         + (IF before[n].status # "Released" /\ after[n].status = "Released"
            THEN after[n].amount ELSE 0)

\* C6, the refused call: on an Active escrow, release_milestone of a milestone
\* that is already Released, authorized by the depositor, returns
\* MilestoneAlreadyReleased and leaves the storage as it was.
C6_SecondReleaseRefused ==
    \A id \in StoredIds :
        \A milestone_index \in Indexes, auths \in AuthSets :
            LET escrow == escrow_slots[id]
                outcome == release_milestone(Storage, id, milestone_index, auths) IN
            (/\ escrow.status = "Active"
             /\ milestone_index < Len(escrow.milestones)
             /\ escrow.milestones[milestone_index + 1].status = "Released"
             /\ require_auth(escrow.depositor, auths))
            => (outcome.result = "MilestoneAlreadyReleased" /\ outcome.storage = Storage)

\* C6, the consequence: in every step, total_released grows by exactly the amounts
\* of the milestones that become Released in that step, and a Released milestone
\* stays Released, so no amount is added twice.
C6_AddedOnce ==
    \A id \in StoredIds :
        LET before == escrow_slots[id]
            after == escrow_slots'[id] IN
        /\ \A i \in 1 .. Len(before.milestones) :
              before.milestones[i].status = "Released"
                 => after.milestones[i].status = "Released"
        /\ after.total_released - before.total_released
              = newly_released_sum(before.milestones, after.milestones,
                                   Len(before.milestones))

\* C6: no double release.
C6_NoDoubleRelease == []C6_SecondReleaseRefused /\ [][C6_AddedOnce]_vars

\* C6 witness: a second release of a Released milestone of an Active escrow,
\* refused with MilestoneAlreadyReleased.
C6_Witness ==
    \E id \in StoredIds :
        /\ escrow_slots[id].status = "Active"
        /\ escrow_slots[id].total_released > 0
        /\ last = [op |-> "release_milestone", id |-> id,
                   result |-> "MilestoneAlreadyReleased"]

\* C7: whenever resolve_dispute succeeds with the escrow's recipient as winner,
\* the record it saves has every milestone Released, total_released equal to
\* total_amount, resolution Recipient and status Resolved.
C7_RecipientWins ==
    \A id \in StoredIds :
        \A winner \in Addresses, auths \in AuthSets :
            LET outcome == resolve_dispute(Storage, id, winner, auths)
                after == outcome.storage.escrows[id] IN
            (outcome.result = "Ok" /\ winner = escrow_slots[id].recipient) =>
                /\ \A i \in 1 .. Len(after.milestones) :
                      after.milestones[i].status = "Released"
                /\ Len(after.milestones) = Len(escrow_slots[id].milestones)
                /\ after.total_released = after.total_amount
                /\ after.resolution = "Recipient"
                /\ after.status = "Resolved"

\* C7 witness: a Disputed escrow holding one Released and one Disputed milestone,
\* on which resolve_dispute for the recipient succeeds.
C7_Witness ==
    \E id \in StoredIds :
        LET escrow == escrow_slots[id] IN
        /\ escrow.status = "Disputed"
        /\ escrow.depositor # escrow.recipient
        /\ Len(escrow.milestones) = 2
        /\ escrow.milestones[1].status = "Released"
        /\ escrow.milestones[2].status = "Disputed"
        /\ \E auths \in AuthSets :
              resolve_dispute(Storage, id, escrow.recipient, auths).result = "Ok"

\* C8: whenever resolve_dispute succeeds with the escrow's depositor as winner,
\* total_released is unchanged, Released milestones stay Released, every other
\* milestone is Disputed, resolution is Depositor and status is Resolved.
C8_DepositorWins ==
    \A id \in StoredIds :
        \A winner \in Addresses, auths \in AuthSets :
            LET before == escrow_slots[id]
                outcome == resolve_dispute(Storage, id, winner, auths)
                after == outcome.storage.escrows[id] IN
            (outcome.result = "Ok" /\ winner = before.depositor) =>
                /\ after.total_released = before.total_released
                /\ \A i \in 1 .. Len(before.milestones) :
                      after.milestones[i].status =
                          IF before.milestones[i].status = "Released"
                          THEN "Released" ELSE "Disputed"
                /\ after.resolution = "Depositor"
                /\ after.status = "Resolved"

\* C9: every stored escrow has between 1 and 20 milestones, each with a
\* strictly positive amount.
C9_MilestoneBounds ==
    \A id \in StoredIds :
        LET milestones == escrow_slots[id].milestones IN
        /\ 1 <= Len(milestones)
        /\ Len(milestones) <= MAX_MILESTONES
        /\ \A i \in 1 .. Len(milestones) : milestones[i].amount > 0

\* C10: every stored escrow has a depositor and a recipient that differ.
C10_DistinctParties ==
    \A id \in StoredIds : escrow_slots[id].depositor # escrow_slots[id].recipient

\* Milestone lists a second create_escrow is tried with: empty, valid with a
\* caller-supplied Released status, with an invalid amount, and oversize.
RetryLists ==
    {<<>>,
     <<[amount |-> 1, status |-> "Released", description |-> "design"]>>,
     <<[amount |-> 0, status |-> "Pending", description |-> "dev"]>>,
     OversizeList}

\* C11: an escrow id is never reused: every id on which create_escrow has
\* succeeded is still stored, and create_escrow with a stored id, whatever the
\* record's status and whatever depositor, recipient and milestones it is given,
\* leaves the storage as it was; its result is EscrowAlreadyExists whenever the
\* invocation carries the named depositor's authorization (without it the host
\* aborts the invocation at require_auth, which create_escrow calls first).
C11_IdNeverReused ==
    /\ DOMAIN created \subseteq StoredIds
    /\ \A id \in StoredIds :
          \A depositor \in Addresses :
              /\ \A recipient \in Addresses, milestones \in RetryLists :
                     create_escrow(Storage, id, depositor, recipient, milestones,
                                   {depositor})
                         = Err("EscrowAlreadyExists", Storage)
              /\ \A auths \in AuthSets \ {{depositor}} :
                     create_escrow(Storage, id, depositor, depositor, <<>>, auths)
                         = Err("HostAuthError", Storage)

\* C11 witness: a create_escrow refused with EscrowAlreadyExists on the id of a
\* Resolved escrow.
C11_Witness ==
    \E id \in DOMAIN created :
        /\ id \in StoredIds
        /\ escrow_slots[id].status = "Resolved"
        /\ last = [op |-> "create_escrow", id |-> id, result |-> "EscrowAlreadyExists"]

\* C12: the admin is set at most once: with no admin stored, a successful init
\* stores exactly its argument; with an admin stored, init fails with
\* AlreadyInitialized for the same and for every other identity and leaves the
\* storage as it was; and the stored admin is, in every state, the one the
\* first successful init stored.
C12_AdminSetOnce ==
    /\ admin_slot = first_admin
    /\ \A admin \in Addresses, auths \in AuthSets :
          LET outcome == init(Storage, admin, auths) IN
          IF admin_slot = <<>>
          THEN /\ outcome.result = "Ok" <=> require_auth(admin, auths)
               /\ outcome.storage.admin =
                      IF outcome.result = "Ok" THEN <<admin>> ELSE <<>>
               /\ outcome.storage.escrows = escrow_slots
          ELSE outcome = Err("AlreadyInitialized", Storage)

\* C12 witness: an init naming the stored admin again was refused with
\* AlreadyInitialized after other operations took place.
C12_Witness ==
    /\ admin_slot = <<"carol">>
    /\ first_admin = <<"carol">>
    /\ last.op = "init" /\ last.result = "AlreadyInitialized"
    /\ \E id \in StoredIds : escrow_slots[id].status = "Resolved"

\* C13: while no admin is stored, resolve_dispute fails with
\* AdminNotInitialized and changes nothing, for every escrow id (stored or
\* not, in any status), every winner and every signer; and no stored escrow is
\* Resolved.
C13_NoAdminNoResolution ==
    admin_slot = <<>> =>
        /\ \A id \in EscrowIds, winner \in Addresses, auths \in AuthSets :
               resolve_dispute(Storage, id, winner, auths)
                   = Err("AdminNotInitialized", Storage)
        /\ \A id \in StoredIds : escrow_slots[id].status # "Resolved"

\* C13 witness: with no admin stored, a resolve_dispute on a Disputed escrow
\* was refused with AdminNotInitialized.
C13_Witness ==
    /\ admin_slot = <<>>
    /\ \E id \in StoredIds :
          /\ escrow_slots[id].status = "Disputed"
          /\ last = [op |-> "resolve_dispute", id |-> id,
                     result |-> "AdminNotInitialized"]

\* True when some milestone of the list is Released.
some_released(milestones) ==
    \E i \in 1 .. Len(milestones) : milestones[i].status = "Released"

\* C14: cancel_escrow succeeds only on an Active escrow with total_released 0;
\* called with the depositor's authorization it fails with InvalidEscrowStatus
\* on every escrow that is not Active and with MilestoneAlreadyReleased on an
\* Active escrow with a Released milestone, the storage unchanged; hence a
\* Cancelled escrow has total_released 0 and no Released milestone.
C14_CancelBeforePayout ==
    \A id \in StoredIds :
        LET escrow == escrow_slots[id] IN
        /\ \A auths \in AuthSets :
               cancel_escrow(Storage, id, auths).result = "Ok"
                   => /\ escrow.status = "Active"
                      /\ escrow.total_released = 0
                      /\ ~some_released(escrow.milestones)
        /\ escrow.status # "Active"
               => cancel_escrow(Storage, id, {escrow.depositor})
                      = Err("InvalidEscrowStatus", Storage)
        /\ escrow.status = "Active" /\ some_released(escrow.milestones)
               => cancel_escrow(Storage, id, {escrow.depositor})
                      = Err("MilestoneAlreadyReleased", Storage)
        /\ escrow.status = "Cancelled"
               => /\ escrow.total_released = 0
                  /\ ~some_released(escrow.milestones)

\* C14 witness: a cancel_escrow refused with MilestoneAlreadyReleased on an
\* Active escrow with one milestone Released and one Pending.
C14_Witness ==
    \E id \in StoredIds :
        /\ escrow_slots[id].status = "Active"
        /\ Len(escrow_slots[id].milestones) = 2
        /\ escrow_slots[id].milestones[1].status = "Pending"
        /\ escrow_slots[id].milestones[2].status = "Released"
        /\ last = [op |-> "cancel_escrow", id |-> id,
                   result |-> "MilestoneAlreadyReleased"]

\* C15: complete_escrow succeeds only on an Active escrow whose milestones are
\* all Released; called with the depositor's authorization it fails with
\* EscrowNotActive on an Active escrow with a milestone that is not Released
\* and with InvalidEscrowStatus on every escrow that is not Active, the storage
\* unchanged; hence a Completed escrow has every milestone Released and
\* total_released equal to total_amount.
C15_CompleteAfterFullPayout ==
    \A id \in StoredIds :
        LET escrow == escrow_slots[id]
            all_released == \A i \in 1 .. Len(escrow.milestones) :
                                escrow.milestones[i].status = "Released" IN
        /\ \A auths \in AuthSets :
               complete_escrow(Storage, id, auths).result = "Ok"
                   => escrow.status = "Active" /\ all_released
        /\ escrow.status = "Active" /\ ~all_released
               => complete_escrow(Storage, id, {escrow.depositor})
                      = Err("EscrowNotActive", Storage)
        /\ escrow.status # "Active"
               => complete_escrow(Storage, id, {escrow.depositor})
                      = Err("InvalidEscrowStatus", Storage)
        /\ escrow.status = "Completed"
               => all_released /\ escrow.total_released = escrow.total_amount

\* C15 witness: a complete_escrow refused with EscrowNotActive on an Active
\* escrow whose first milestone is Released and whose second is Pending.
C15_Witness ==
    \E id \in StoredIds :
        /\ escrow_slots[id].status = "Active"
        /\ Len(escrow_slots[id].milestones) = 2
        /\ escrow_slots[id].milestones[1].status = "Released"
        /\ escrow_slots[id].milestones[2].status = "Pending"
        /\ last = [op |-> "complete_escrow", id |-> id, result |-> "EscrowNotActive"]

\* C16: raise_dispute on an Active escrow, called and authorized by its
\* depositor or by its recipient, succeeds, and the record it saves differs
\* from the one before in exactly this: every Pending milestone is Disputed,
\* the status is Disputed and the resolution is None; Released milestones,
\* amounts, descriptions, parties, total_released and total_amount are as
\* before, and nothing else in the storage changes.
C16_RaiseDisputeEffect ==
    \A id \in StoredIds :
        escrow_slots[id].status = "Active" =>
            \A caller \in {escrow_slots[id].depositor, escrow_slots[id].recipient} :
                LET before  == escrow_slots[id]
                    outcome == raise_dispute(Storage, id, caller, {caller})
                    after   == outcome.storage.escrows[id] IN
                /\ outcome.result = "Ok"
                /\ outcome.storage.admin = admin_slot
                /\ DOMAIN outcome.storage.escrows = StoredIds
                /\ \A other \in StoredIds \ {id} :
                       outcome.storage.escrows[other] = escrow_slots[other]
                /\ after.depositor = before.depositor
                /\ after.recipient = before.recipient
                /\ after.total_amount = before.total_amount
                /\ after.total_released = before.total_released
                /\ after.status = "Disputed"
                /\ after.resolution = "None"
                /\ Len(after.milestones) = Len(before.milestones)
                /\ \A i \in 1 .. Len(before.milestones) :
                       /\ after.milestones[i].amount = before.milestones[i].amount
                       /\ after.milestones[i].description
                              = before.milestones[i].description
                       /\ after.milestones[i].status =
                              IF before.milestones[i].status = "Pending"
                              THEN "Disputed" ELSE before.milestones[i].status

\* C16 witness: a raise_dispute by the recipient succeeded on an escrow with a
\* Released and a Pending milestone; the first is still Released, the second
\* is Disputed, and total_released is the first one's amount.
C16_Witness ==
    \E id \in StoredIds :
        /\ id \in raised
        /\ escrow_slots[id].status = "Disputed"
        /\ escrow_slots[id].resolution = "None"
        /\ Len(escrow_slots[id].milestones) = 2
        /\ escrow_slots[id].milestones[1].status = "Released"
        /\ escrow_slots[id].milestones[2].status = "Disputed"
        /\ escrow_slots[id].total_released = escrow_slots[id].milestones[1].amount
        /\ last = [op |-> "raise_dispute", id |-> id, result |-> "Ok"]

\* The sum of the amounts of the first n milestones of a list.
RECURSIVE amount_sum(_, _)
amount_sum(milestones, n) ==
    IF n = 0 THEN 0 ELSE amount_sum(milestones, n - 1) + milestones[n].amount

\* C17: a successful create_escrow(id, depositor, recipient, milestones) saves
\* under id a record with the parties given, every milestone Pending whatever
\* status was submitted, the submitted amounts and descriptions in the
\* submitted order, total_amount their sum, total_released 0, status Active and
\* resolution None.
C17_CreationRecord ==
    \A id \in EscrowIds \ StoredIds :
        \A depositor \in Addresses, recipient \in Addresses,
           milestones \in MilestoneLists :
            LET outcome == create_escrow(Storage, id, depositor, recipient,
                                         milestones, {depositor}) IN
            outcome.result = "Ok" =>
                LET escrow == outcome.storage.escrows[id] IN
                /\ escrow.depositor = depositor
                /\ escrow.recipient = recipient
                /\ Len(escrow.milestones) = Len(milestones)
                /\ \A i \in 1 .. Len(milestones) :
                       /\ escrow.milestones[i].status = "Pending"
                       /\ escrow.milestones[i].amount = milestones[i].amount
                       /\ escrow.milestones[i].description
                              = milestones[i].description
                /\ escrow.total_amount = amount_sum(milestones, Len(milestones))
                /\ escrow.total_released = 0
                /\ escrow.status = "Active"
                /\ escrow.resolution = "None"

\* C17 witness: create_escrow has just succeeded and the record holds two
\* Pending milestones with different descriptions, total_amount their sum.
C17_Witness ==
    \E id \in StoredIds :
        /\ last = [op |-> "create_escrow", id |-> id, result |-> "Ok"]
        /\ escrow_slots[id] = created[id]
        /\ Len(escrow_slots[id].milestones) = 2
        /\ escrow_slots[id].milestones[1].description = "dev"
        /\ escrow_slots[id].milestones[2].description = "design"
        /\ escrow_slots[id].total_amount = 2
        /\ escrow_slots[id].status = "Active"

\* C18: the fields fixed at creation never change: every record has the
\* depositor, recipient, total_amount, number of milestones and, milestone by
\* milestone, the amount and description that its create_escrow saved, and
\* total_amount is the sum of all milestone amounts.
C18_CreationFieldsImmutable ==
    /\ DOMAIN created = StoredIds
    /\ \A id \in StoredIds :
          LET escrow == escrow_slots[id]
              first  == created[id] IN
          /\ escrow.depositor = first.depositor
          /\ escrow.recipient = first.recipient
          /\ escrow.total_amount = first.total_amount
          /\ Len(escrow.milestones) = Len(first.milestones)
          /\ \A i \in 1 .. Len(first.milestones) :
                 /\ escrow.milestones[i].amount = first.milestones[i].amount
                 /\ escrow.milestones[i].description
                        = first.milestones[i].description
          /\ escrow.total_amount
                 = amount_sum(escrow.milestones, Len(escrow.milestones))

\* C18 witness: an escrow that went through release, dispute and resolution:
\* statuses, total_released, status and resolution differ from the record
\* saved at creation.
C18_Witness ==
    \E id \in StoredIds :
        /\ id \in DOMAIN created
        /\ id \in raised
        /\ Len(escrow_slots[id].milestones) = 2
        /\ escrow_slots[id].milestones[1].status = "Released"
        /\ escrow_slots[id].milestones[2].status = "Disputed"
        /\ escrow_slots[id].total_released > created[id].total_released
        /\ escrow_slots[id].status = "Resolved"
        /\ escrow_slots[id].resolution = "Depositor"
        /\ created[id].status = "Active"

\* The changes a milestone's status can go through.
MilestoneEdges ==
    {<<"Pending", "Released">>, <<"Pending", "Disputed">>, <<"Disputed", "Released">>}

\* One step keeps every stored milestone's status or moves it along an edge.
C19_Step ==
    \A id \in StoredIds :
        /\ id \in DOMAIN escrow_slots'
        /\ Len(escrow_slots'[id].milestones) = Len(escrow_slots[id].milestones)
        /\ \A i \in 1 .. Len(escrow_slots[id].milestones) :
               \/ escrow_slots'[id].milestones[i].status
                      = escrow_slots[id].milestones[i].status
               \/ <<escrow_slots[id].milestones[i].status,
                    escrow_slots'[id].milestones[i].status>> \in MilestoneEdges

\* C19: milestone status is monotone: in every step a milestone's status stays
\* or changes Pending -> Released, Pending -> Disputed or Disputed -> Released;
\* a Released milestone never changes and a Disputed one never becomes Pending.
C19_MilestoneMonotone == [][C19_Step]_vars

\* C19 witness: a dispute resolved for the recipient has just released the
\* Disputed milestones of an escrow on which raise_dispute had succeeded.
C19_Witness ==
    \E id \in StoredIds :
        /\ id \in raised
        /\ last = [op |-> "resolve_dispute", id |-> id, result |-> "Ok"]
        /\ escrow_slots[id].resolution = "Recipient"
        /\ Len(escrow_slots[id].milestones) = 2
        /\ \A i \in 1 .. 2 : escrow_slots[id].milestones[i].status = "Released"
        /\ escrow_slots[id].depositor # escrow_slots[id].recipient

\* C20: release_milestone, cancel_escrow and complete_escrow, invoked without
\* the depositor's authorization, fail with UnauthorizedAccess and leave the
\* storage unchanged.
C20_UnauthorizedAccess ==
    \A id \in StoredIds, auths \in AuthSets :
        ~require_auth(escrow_slots[id].depositor, auths) =>
            /\ \A milestone_index \in Indexes :
                   release_milestone(Storage, id, milestone_index, auths)
                       = Err("UnauthorizedAccess", Storage)
            /\ cancel_escrow(Storage, id, auths) = Err("UnauthorizedAccess", Storage)
            /\ complete_escrow(Storage, id, auths) = Err("UnauthorizedAccess", Storage)

\* A one-entry milestone list create_escrow accepts.
OneMilestone == <<[amount |-> 1, status |-> "Pending", description |-> "design"]>>

\* No entry point changes the storage in an invocation that lacks the
\* authorization the entry point asks for; raise_dispute by a caller who is
\* neither party returns UnauthorizedAccess.
AuthorizationGates ==
    /\ \A admin \in Addresses, auths \in AuthSets :
           ~require_auth(admin, auths)
               => init(Storage, admin, auths).storage = Storage
    /\ \A id \in EscrowIds, depositor \in Addresses, recipient \in Addresses,
          auths \in AuthSets :
           ~require_auth(depositor, auths)
               => create_escrow(Storage, id, depositor, recipient, OneMilestone,
                                auths).storage = Storage
    /\ \A id \in StoredIds, auths \in AuthSets :
           ~require_auth(escrow_slots[id].depositor, auths)
               => /\ \A milestone_index \in Indexes :
                         release_milestone(Storage, id, milestone_index,
                                           auths).storage = Storage
                  /\ cancel_escrow(Storage, id, auths).storage = Storage
                  /\ complete_escrow(Storage, id, auths).storage = Storage
    /\ \A id \in StoredIds, caller \in Addresses, auths \in AuthSets :
           LET outcome == raise_dispute(Storage, id, caller, auths) IN
           IF caller # escrow_slots[id].depositor /\ caller # escrow_slots[id].recipient
           THEN outcome = Err("UnauthorizedAccess", Storage)
           ELSE ~require_auth(caller, auths) => outcome.storage = Storage
    /\ \A id \in EscrowIds, winner \in Addresses, auths \in AuthSets :
           (admin_slot = <<>> \/ ~require_auth(admin_slot[1], auths))
               => resolve_dispute(Storage, id, winner, auths).storage = Storage

\* True when the record `after` has a Released milestone that `before` has not,
\* or a larger total_released.
pays_out(before, after) ==
    \/ after.total_released > before.total_released
    \/ \E i \in 1 .. Len(before.milestones) :
           /\ after.milestones[i].status = "Released"
           /\ before.milestones[i].status # "Released"

\* No invocation authorized by the recipient alone makes a milestone Released
\* or increases total_released.
RecipientAloneNeverPaysOut ==
    \A id \in StoredIds :
        LET before == escrow_slots[id]
            auths  == {before.recipient} IN
        /\ \A milestone_index \in Indexes :
               ~pays_out(before, release_milestone(Storage, id, milestone_index,
                                                   auths).storage.escrows[id])
        /\ \A winner \in Addresses :
               ~pays_out(before, resolve_dispute(Storage, id, winner,
                                                 auths).storage.escrows[id])

\* C21: no operation changes state without the authorization it requires
\* (create_escrow: the named depositor; release_milestone, cancel_escrow,
\* complete_escrow: the record's depositor; raise_dispute: the claimed caller,
\* who must be a party, else UnauthorizedAccess; resolve_dispute: the stored
\* admin; init: the identity being stored), and the recipient alone never
\* causes a milestone to become Released or total_released to increase.
C21_AuthorizationRequired ==
    AuthorizationGates /\ RecipientAloneNeverPaysOut

\* C22: escrow status and milestone statuses are consistent in every reachable
\* state: an Active, Cancelled or Completed escrow has no Disputed milestone, a
\* Disputed or Resolved escrow has no Pending milestone, and the resolution is
\* Depositor or Recipient exactly when the status is Resolved, None otherwise.
C22_StatusConsistency ==
    \A id \in StoredIds :
        LET escrow == escrow_slots[id] IN
        /\ escrow.status \in {"Active", "Cancelled", "Completed"}
               => \A i \in 1 .. Len(escrow.milestones) :
                      escrow.milestones[i].status # "Disputed"
        /\ escrow.status \in {"Disputed", "Resolved"}
               => \A i \in 1 .. Len(escrow.milestones) :
                      escrow.milestones[i].status # "Pending"
        /\ escrow.status = "Resolved" <=> escrow.resolution \in {"Depositor", "Recipient"}
        /\ escrow.status # "Resolved" <=> escrow.resolution = "None"

\* C22 witness: an escrow resolved for its depositor after one release: one
\* milestone Released, the other Disputed, none Pending.
C22_Witness ==
    \E id \in StoredIds :
        /\ escrow_slots[id].status = "Resolved"
        /\ escrow_slots[id].resolution = "Depositor"
        /\ escrow_slots[id].depositor # escrow_slots[id].recipient
        /\ Len(escrow_slots[id].milestones) = 2
        /\ escrow_slots[id].milestones[1].status = "Disputed"
        /\ escrow_slots[id].milestones[2].status = "Released"

\* The milestone lists of positive amounts whose sum overflows the integer
\* domain (all Pending, one description: neither is read by the validation).
OverflowLists ==
    {milestones \in MilestoneLists :
        /\ Len(milestones) <= MAX_MILESTONES
        /\ \A i \in 1 .. Len(milestones) :
               /\ milestones[i].amount > 0
               /\ milestones[i].status = "Pending"
               /\ milestones[i].description = "design"
        /\ amount_sum(milestones, Len(milestones)) > I128_MAX}

\* C23: the overflow branch of release_milestone is unreachable: in every
\* reachable state no release_milestone call returns InvalidMilestoneAmount,
\* because for every milestone not yet Released total_released + amount is at
\* most total_amount, which fits the integer domain; and create_escrow with
\* positive amounts whose sum overflows returns InvalidMilestoneAmount and
\* stores nothing.
C23_OverflowUnreachable ==
    /\ \A id \in StoredIds :
          LET escrow == escrow_slots[id] IN
          /\ escrow.total_amount <= I128_MAX
          /\ \A i \in 1 .. Len(escrow.milestones) :
                 escrow.milestones[i].status # "Released"
                     => escrow.total_released + escrow.milestones[i].amount
                            <= escrow.total_amount
          /\ \A milestone_index \in Indexes, auths \in AuthSets :
                 release_milestone(Storage, id, milestone_index, auths).result
                     # "InvalidMilestoneAmount"
    /\ \A id \in EscrowIds \ StoredIds :
          \A depositor \in Addresses, recipient \in Addresses,
             milestones \in OverflowLists :
              create_escrow(Storage, id, depositor, recipient, milestones,
                            {depositor})
                  = Err("InvalidMilestoneAmount", Storage)

\* C23 witness: the release of the last Pending milestone has just succeeded
\* on an Active escrow whose total_amount is the largest integer, bringing
\* total_released up to it.
C23_Witness ==
    \E id \in StoredIds :
        /\ last = [op |-> "release_milestone", id |-> id, result |-> "Ok"]
        /\ escrow_slots[id].status = "Active"
        /\ Len(escrow_slots[id].milestones) = 2
        /\ escrow_slots[id].total_amount = I128_MAX
        /\ escrow_slots[id].total_released = I128_MAX

\* The depositor releases, in index order from i on, every milestone of the
\* escrow that is not Released; ok is FALSE when one of the calls fails.
RECURSIVE release_remaining(_, _, _)
release_remaining(st, id, i) ==
    IF i >= Len(st.escrows[id].milestones) THEN [ok |-> TRUE, storage |-> st]
    ELSE IF st.escrows[id].milestones[i + 1].status = "Released"
    THEN release_remaining(st, id, i + 1)
    ELSE LET outcome == release_milestone(st, id, i, {st.escrows[id].depositor}) IN
         IF outcome.result # "Ok" THEN [ok |-> FALSE, storage |-> st]
         ELSE release_remaining(outcome.storage, id, i + 1)

\* Every Active or Disputed escrow has its way out: Active, the depositor's
\* releases of the remaining milestones and then complete_escrow succeed and
\* leave it Completed, and cancel_escrow succeeds when nothing is released;
\* Disputed, after an init if no admin is stored, the admin's resolve_dispute
\* succeeds for either party and leaves it Resolved.
C24_ExitExists ==
    \A id \in StoredIds :
        LET escrow == escrow_slots[id] IN
        /\ escrow.status = "Active" =>
               LET drained   == release_remaining(Storage, id, 0)
                   completed == complete_escrow(drained.storage, id,
                                                {escrow.depositor})
                   cancelled == cancel_escrow(Storage, id, {escrow.depositor}) IN
               /\ drained.ok
               /\ completed.result = "Ok"
               /\ completed.storage.escrows[id].status = "Completed"
               /\ escrow.total_released = 0
                      => /\ cancelled.result = "Ok"
                         /\ cancelled.storage.escrows[id].status = "Cancelled"
        /\ escrow.status = "Disputed" =>
               \A admin \in Addresses, winner \in {escrow.depositor, escrow.recipient} :
                   LET ready == IF admin_slot = <<>>
                                THEN init(Storage, admin, {admin})
                                ELSE Ok(Storage)
                       resolved == resolve_dispute(ready.storage, id, winner,
                                                   {ready.storage.admin[1]}) IN
                   /\ ready.result = "Ok"
                   /\ resolved.result = "Ok"
                   /\ resolved.storage.escrows[id].status = "Resolved"

\* C24: no escrow is locked forever: in every reachable state every Active or
\* Disputed escrow has a sequence of authorized calls that succeeds and takes
\* it to a terminal status, and under weak fairness on init, release_milestone,
\* complete_escrow and resolve_dispute every created escrow eventually is
\* Completed, Cancelled or Resolved.
C24_NoEscrowLockedForever ==
    /\ []C24_ExitExists
    /\ \A id \in EscrowIds :
           (id \in StoredIds) ~> (id \in StoredIds /\ Terminal(escrow_slots[id]))

\* C24 witness: a dispute raised before any release has just been resolved for
\* the depositor: the escrow is Resolved with both milestones Disputed.
C24_Witness ==
    \E id \in StoredIds :
        /\ id \in raised
        /\ last = [op |-> "resolve_dispute", id |-> id, result |-> "Ok"]
        /\ escrow_slots[id].status = "Resolved"
        /\ escrow_slots[id].total_released = 0
        /\ Len(escrow_slots[id].milestones) = 2
        /\ \A i \in 1 .. 2 : escrow_slots[id].milestones[i].status = "Disputed"

====
